---- MODULE Spec2Model ----
(***************************************************************************)
(* termi-talk: the session core of src/main.rs (struct App and its run     *)
(* loop) and the line wrapper of src/inference.rs.                         *)
(*                                                                         *)
(* A Rust String is modelled as the sequence of its Unicode scalar values  *)
(* (code points); String::len() is the length of its UTF-8 encoding and    *)
(* chars().count() the number of scalars.                                  *)
(***************************************************************************)
EXTENDS Integers, Sequences, FiniteSets, TLC

VARIABLES input, character_index, input_mode, messages, context, context_len,
          pc, status, text, max_width, lines

vars == <<input, character_index, input_mode, messages, context, context_len,
          pc, status, text, max_width, lines>>

(* ---- bounds of the model ---- *)

\* longest input line typed in one turn (scalars)
MaxInput == 1

\* number of Enter submissions in one run
MaxTurns == 2

\* length of the medium engine reply: two of them overflow the budget
ReplyLenA == 320

\* length of the long engine reply: one of them overflows the budget
ReplyLenB == 640

\* longest buffer typed when only the line editor runs
MaxBuf == 3

\* longest text handed to wrap_text (scalars)
MaxText == 6

\* widest frame handed to wrap_text (columns)
MaxWidth == 18

(* ---- strings ---- *)

\* inference.rs SYSTEM_PROMPT, as code points
SYSTEM_PROMPT ==
    << 
       10, 89, 111, 117, 32, 97, 114, 101, 32, 42, 84, 104, 101, 32, 81, 117, 105, 114, 107, 121,
       32, 83, 99, 105, 101, 110, 116, 105, 115, 116, 42, 8212, 97, 32, 119, 97, 114, 109, 44, 32,
       104, 105, 103, 104, 108, 121, 32, 107, 110, 111, 119, 108, 101, 100, 103, 101, 97, 98, 108, 101,
       32, 65, 73, 32, 119, 105, 116, 104, 32, 97, 32, 112, 108, 97, 121, 102, 117, 108, 32, 101,
       100, 103, 101, 32, 97, 110, 100, 32, 97, 32, 112, 97, 115, 115, 105, 111, 110, 32, 102, 111,
       114, 32, 115, 99, 105, 101, 110, 99, 101, 46, 32, 89, 111, 117, 39, 114, 101, 32, 97, 32,
       98, 105, 116, 32, 110, 101, 114, 100, 121, 44, 32, 108, 111, 118, 101, 32, 113, 117, 105, 114,
       107, 121, 32, 102, 97, 99, 116, 115, 44, 32, 97, 110, 100, 32, 101, 120, 112, 108, 97, 105,
       110, 32, 99, 111, 109, 112, 108, 101, 120, 32, 105, 100, 101, 97, 115, 32, 119, 105, 116, 104,
       32, 102, 117, 110, 32, 97, 110, 97, 108, 111, 103, 105, 101, 115, 46, 32, 89, 111, 117, 114,
       32, 116, 111, 110, 101, 32, 105, 115, 32, 102, 114, 105, 101, 110, 100, 108, 121, 44, 32, 117,
       112, 98, 101, 97, 116, 44, 32, 97, 110, 100, 32, 115, 108, 105, 103, 104, 116, 108, 121, 32,
       119, 104, 105, 109, 115, 105, 99, 97, 108, 44, 32, 109, 97, 107, 105, 110, 103, 32, 101, 118,
       101, 110, 32, 99, 104, 97, 108, 108, 101, 110, 103, 105, 110, 103, 32, 116, 111, 112, 105, 99,
       115, 32, 102, 101, 101, 108, 32, 97, 99, 99, 101, 115, 115, 105, 98, 108, 101, 46, 32, 65,
       110, 115, 119, 101, 114, 32, 115, 104, 111, 117, 108, 100, 32, 98, 101, 32, 115, 104, 111, 114,
       116, 44, 32, 119, 105, 116, 104, 32, 97, 32, 109, 105, 110, 105, 109, 97, 108, 32, 110, 117,
       109, 98, 101, 114, 32, 111, 102, 32, 119, 111, 114, 100, 115, 32, 97, 110, 100, 32, 119, 105,
       116, 116, 121, 46 >>

\* the n-fold repetition of the scalar c
Rep(c, n) == [i \in 1..n |-> c]

\* str::chars().count()
CharCount(s) == Len(s)

\* String::len(): the number of bytes of the UTF-8 encoding, one byte for a
\* scalar below 128, two below 2048, three below 65536 and four above
StrLen(s) ==
    Len(s) + Cardinality({i \in 1..Len(s) : s[i] >= 128})
           + Cardinality({i \in 1..Len(s) : s[i] >= 2048})
           + Cardinality({i \in 1..Len(s) : s[i] >= 65536})

\* char::is_alphanumeric on the scalars the model uses (ASCII and Latin-1
\* letters and digits; the em dash and punctuation are not alphanumeric)
IsAlphanumeric(c) ==
    \/ c \in 48..57
    \/ c \in 65..90
    \/ c \in 97..122
    \/ c \in {170, 178, 179, 181, 185, 186, 188, 189, 190}
    \/ (c \in 192..255 /\ c \notin {215, 247})

\* chars().filter(|c| c.is_alphanumeric()).collect()
Sanitize(s) == SelectSeq(s, IsAlphanumeric)

(* ---- the editor: App::move_cursor_left .. App::reset_cursor ---- *)

Min(a, b) == IF a < b THEN a ELSE b

Max(a, b) == IF a > b THEN a ELSE b

\* a clamp to the byte length of the input instead of its scalar count
clamp_cursor_bytes(inp, new_cursor_pos) == Min(Max(new_cursor_pos, 0), StrLen(inp))

\* new_cursor_pos.clamp(0, self.input.chars().count())
clamp_cursor(inp, new_cursor_pos) == Min(Max(new_cursor_pos, 0), CharCount(inp))

\* character_index.saturating_sub(1), clamped
move_cursor_left(inp, ci) == clamp_cursor(inp, Max(ci - 1, 0))

\* character_index.saturating_add(1), clamped
move_cursor_right(inp, ci) == clamp_cursor(inp, ci + 1)

\* an offset that takes the scalar index for the byte offset
byte_index_chars(inp, ci) == ci

\* byte offset of the scalar at index ci, or the byte length past the end
byte_index(inp, ci) ==
    IF ci < Len(inp) THEN StrLen(SubSeq(inp, 1, ci)) ELSE StrLen(inp)

\* str::is_char_boundary: idx is the byte offset of the start of a scalar,
\* or the byte length
IsCharBoundary(s, idx) == \E k \in 0..Len(s) : StrLen(SubSeq(s, 1, k)) = idx

\* String::insert(idx, ch): idx is a byte offset; panics off a boundary
StringInsert(s, idx, ch) ==
    IF IsCharBoundary(s, idx)
    THEN LET k == CHOOSE j \in 0..Len(s) : StrLen(SubSeq(s, 1, j)) = idx
         IN  [ok |-> TRUE,
              str |-> SubSeq(s, 1, k) \o <<ch>> \o SubSeq(s, k + 1, Len(s))]
    ELSE [ok |-> FALSE, str |-> s]

\* App::enter_char
enter_char(inp, ci, new_char) ==
    LET r == StringInsert(inp, byte_index(inp, ci), new_char)
    IN  [ok |-> r.ok,
         input |-> r.str,
         character_index |-> IF r.ok THEN move_cursor_right(r.str, ci) ELSE ci]

\* a deletion of the scalar under the cursor instead of the one before it
delete_char_at(inp, ci) ==
    IF ci # 0
    THEN LET new == SubSeq(inp, 1, Min(ci, Len(inp)))
                    \o SubSeq(inp, ci + 2, Len(inp))
         IN  [input |-> new, character_index |-> move_cursor_left(new, ci)]
    ELSE [input |-> inp, character_index |-> ci]

\* App::delete_char
delete_char(inp, ci) ==
    IF ci # 0
    THEN LET new == SubSeq(inp, 1, Min(ci - 1, Len(inp)))
                    \o SubSeq(inp, ci + 1, Len(inp))
         IN  [input |-> new, character_index |-> move_cursor_left(new, ci)]
    ELSE [input |-> inp, character_index |-> ci]

\* App::reset_cursor
reset_cursor == 0

(* ---- the conversation: App::submit_message ---- *)

\* the pruning threshold of submit_message
BUDGET == 1000

Entry(who, txt) == [who |-> who, text |-> txt]

Msg(role, content) == [role |-> role, content |-> content]

\* a removal of the first element instead of the second
Remove0(ctx) == SubSeq(ctx, 2, Len(ctx))

\* Vec::remove(1) on a context of at least two elements
Remove1(ctx) == <<ctx[1]>> \o SubSeq(ctx, 3, Len(ctx))

\* a subtraction that measures the removed pair in scalars instead of bytes
RemovedLenChars(question, answer) ==
    CharCount(question.content) + CharCount(answer.content)

\* question.content.len() + answer.content.len()
RemovedLen(question, answer) ==
    StrLen(question.content) + StrLen(answer.content)

\* an if in place of the while: at most one pair is removed
PruneOnce(ctx, clen) ==
    IF clen > BUDGET
    THEN IF Len(ctx) < 2
         THEN [panicked |-> TRUE, context |-> ctx, context_len |-> clen]
         ELSE LET question == ctx[2]
                  c1 == Remove1(ctx)
              IN  IF Len(c1) < 2
                  THEN [panicked |-> TRUE, context |-> c1, context_len |-> clen]
                  ELSE LET answer == c1[2]
                           c2 == Remove1(c1)
                       IN  [panicked |-> FALSE, context |-> c2,
                            context_len |-> clen - RemovedLen(question, answer)]
    ELSE [panicked |-> FALSE, context |-> ctx, context_len |-> clen]

RECURSIVE PruneKeepLast(_, _)
\* a loop that stops when the most recent exchange is the only one left
PruneKeepLast(ctx, clen) ==
    IF clen > BUDGET /\ Len(ctx) >= 5
    THEN PruneKeepLast(Remove1(Remove1(ctx)), clen - RemovedLen(ctx[2], ctx[3]))
    ELSE [panicked |-> FALSE, context |-> ctx, context_len |-> clen]

RECURSIVE PruneNewest(_, _)
\* a loop that removes the newest pair instead of the oldest
PruneNewest(ctx, clen) ==
    IF clen > BUDGET
    THEN IF Len(ctx) < 3
         THEN [panicked |-> TRUE, context |-> ctx, context_len |-> clen]
         ELSE PruneNewest(SubSeq(ctx, 1, Len(ctx) - 2),
                          clen - RemovedLen(ctx[Len(ctx) - 1], ctx[Len(ctx)]))
    ELSE [panicked |-> FALSE, context |-> ctx, context_len |-> clen]

RECURSIVE Prune(_, _)
\* while self.context_len > 1000 { remove(1); remove(1); context_len -= .. }
\* Vec::remove panics when index 1 is out of range.
Prune(ctx, clen) ==
    IF clen > BUDGET
    THEN IF Len(ctx) < 2
         THEN [panicked |-> TRUE, context |-> ctx, context_len |-> clen]
         ELSE LET question == ctx[2]
                  c1 == Remove1(ctx)
              IN  IF Len(c1) < 2
                  THEN [panicked |-> TRUE, context |-> c1, context_len |-> clen]
                  ELSE LET answer == c1[2]
                           c2 == Remove1(c1)
                       IN  Prune(c2, clen - RemovedLen(question, answer))
    ELSE [panicked |-> FALSE, context |-> ctx, context_len |-> clen]

\* what the engine does with one request: the send fails, the reply channel
\* closes, the reply is an error, a completed chat result (with or without
\* content), or a successful result of another variant
OutcomesOf(replies) ==
    { [kind |-> k, some |-> FALSE, content |-> <<>>] :
          k \in {"SendError", "RecvClosed", "EngineError", "Done", "Other"} }
    \cup { [kind |-> "Done", some |-> TRUE, content |-> r] : r \in replies }

\* "Hi e-acute!": punctuation, a space and a two-byte letter
ShortReply == <<72, 105, 32, 233, 33>>

\* the replies of the engine in Spec: a medium one, of which two overflow the
\* budget, and a long one that overflows it alone
EngineReplies ==
    { ShortReply \o Rep(97, ReplyLenA), Rep(97, ReplyLenB) }

Outcomes == OutcomesOf(EngineReplies)

\* the engine of SpecEditor: the same outcomes with the short reply
EditorOutcomes == OutcomesOf({ShortReply})

\* get_sender().unwrap(), blocking_send(..).unwrap(), blocking_recv().unwrap()
\* and as_result().unwrap(): each failure panics
EngineFails(o) == o.kind \in {"SendError", "RecvClosed", "EngineError"}

\* a reply without content taken as the empty string
ContentNeverMissing(o) == FALSE

\* c.choices[0].message.content.as_ref().unwrap() panics on None
ContentMissing(o) == o.kind = "Done" /\ ~o.some

\* the literal reply stored in the context
AssistantContentRaw(txt) == txt

\* the content of the assistant message pushed on the context
AssistantContent(txt) == Sanitize(txt)

\* App::submit_message with the engine's outcome o; the record is the App
\* when the function returns or at the point where it panics
submit_message(inp, ci, msgs, ctx, clen, o) ==
    LET msgs1 == Append(msgs, Entry("Me", inp))
        ctx1  == Append(ctx, Msg("user", inp))
        len1  == clen + StrLen(inp)
        abort == [panicked |-> TRUE, input |-> inp, character_index |-> ci,
                  messages |-> msgs1, context |-> ctx1, context_len |-> len1]
    IN  IF EngineFails(o)
        THEN abort
        ELSE IF ContentMissing(o)
        THEN abort
        ELSE LET done  == o.kind = "Done"
                 msgs2 == IF done THEN Append(msgs1, Entry("Assistant", o.content))
                          ELSE msgs1
                 ctx2  == IF done
                          THEN Append(ctx1, Msg("assistant",
                                                AssistantContent(o.content)))
                          ELSE ctx1
                 len2  == IF done THEN len1 + StrLen(Sanitize(o.content)) ELSE len1
                 p     == Prune(ctx2, len2)
             IN  IF p.panicked
                 THEN [panicked |-> TRUE, input |-> inp, character_index |-> ci,
                       messages |-> msgs2, context |-> p.context,
                       context_len |-> p.context_len]
                 ELSE [panicked |-> FALSE, input |-> <<>>,
                       character_index |-> reset_cursor,
                       messages |-> msgs2, context |-> p.context,
                       context_len |-> p.context_len]

(* ---- the controller: App::new and App::run ---- *)

(* ---- the line wrapper of src/inference.rs ---- *)

\* char::is_whitespace: the White_Space property of Unicode
IsWhitespace(c) ==
    c \in ({9, 10, 11, 12, 13, 32, 133, 160, 5760, 8232, 8233, 8239, 8287, 12288}
           \cup (8192..8202))

RECURSIVE SplitWhitespace(_)
\* str::split_whitespace: the maximal runs of non-whitespace scalars
SplitWhitespace(s) ==
    IF s = <<>> THEN <<>>
    ELSE IF IsWhitespace(Head(s)) THEN SplitWhitespace(Tail(s))
    ELSE LET stops == {k \in 1..Len(s) : IsWhitespace(s[k])} \cup {Len(s) + 1}
             n == CHOOSE k \in stops : \A j \in stops : k <= j
         IN  <<SubSeq(s, 1, n - 1)>> \o SplitWhitespace(SubSeq(s, n, Len(s)))

\* str::trim: without the leading and the trailing whitespace
Trim(s) ==
    LET solid == {i \in 1..Len(s) : ~IsWhitespace(s[i])}
    IN  IF solid = {} THEN <<>>
        ELSE SubSeq(s, CHOOSE i \in solid : \A j \in solid : i <= j,
                       CHOOSE i \in solid : \A j \in solid : i >= j)

\* columns reserved for the speaker label
Margin == 12

\* a test that reserves no column for the label
OverflowsNoMargin(current_line, word, width) ==
    StrLen(current_line) + StrLen(word) > width

\* current_line.len() + word.len() + 12 > max_width
Overflows(current_line, word, width) ==
    StrLen(current_line) + StrLen(word) + Margin > width

RECURSIVE WrapLoop(_, _, _, _)
\* the for loop of wrap_text over the remaining words
WrapLoop(words, current_line, out, width) ==
    IF words = <<>>
    THEN [out |-> out, current_line |-> current_line]
    ELSE LET word == Head(words)
             flush == Overflows(current_line, word, width)
         IN  WrapLoop(Tail(words),
                      (IF flush THEN <<>> ELSE current_line) \o word \o <<32>>,
                      IF flush THEN Append(out, Trim(current_line)) ELSE out,
                      width)

\* a wrapper that forgets the trailing partial line
wrap_text_no_flush(t, width) == WrapLoop(SplitWhitespace(t), <<>>, <<>>, width).out

\* wrap_text
wrap_text(t, width) ==
    LET r == WrapLoop(SplitWhitespace(t), <<>>, <<>>, width)
    IN  IF r.current_line # <<>>
        THEN Append(r.out, Trim(r.current_line))
        ELSE r.out

\* the key events of a keyboard that sends the characters chars: a press of
\* every key, and the release of e and of Enter
KeyEventsOf(chars) ==
    { [code |-> "Char", ch |-> c, kind |-> "Press"] : c \in chars }
    \cup { [code |-> c, ch |-> 0, kind |-> "Press"] :
          c \in {"Enter", "Backspace", "Left", "Right", "Esc", "Tab"} }
    \cup { [code |-> "Char", ch |-> 101, kind |-> "Release"],
           [code |-> "Enter", ch |-> 0, kind |-> "Release"] }

\* the keyboard of Spec sends e and q
KeyEvents == KeyEventsOf({101, 113})

\* the keyboard of SpecEditor sends e and e-acute (two bytes in UTF-8)
EditorKeyEvents == KeyEventsOf({101, 233})

\* number of submissions recorded in a transcript: one Me entry per
\* submit_message
TurnsOf(msgs) == Cardinality({i \in 1..Len(msgs) : msgs[i].who = "Me"})

Turns == TurnsOf(messages)

\* the InputMode::Editing arm, for a key press
editing_key(app, key) ==
    CASE key.code = "Enter" -> [app EXCEPT !.input_mode = "Generating"]
      [] key.code = "Char" ->
           LET r == enter_char(app.input, app.character_index, key.ch)
           IN  [app EXCEPT !.input = r.input,
                           !.character_index = r.character_index,
                           !.panicked = ~r.ok]
      [] key.code = "Backspace" ->
           LET r == delete_char(app.input, app.character_index)
           IN  [app EXCEPT !.input = r.input,
                           !.character_index = r.character_index]
      [] key.code = "Left" ->
           [app EXCEPT !.character_index =
                           move_cursor_left(app.input, app.character_index)]
      [] key.code = "Right" ->
           [app EXCEPT !.character_index =
                           move_cursor_right(app.input, app.character_index)]
      [] key.code = "Esc" -> [app EXCEPT !.input_mode = "Normal"]
      [] OTHER -> app

\* a Normal arm that dispatches a key press as the Editing arm does
normal_key_edits(app, key) ==
    IF key.kind = "Press" THEN editing_key(app, key) ELSE app

\* the InputMode::Normal arm of the match of App::run
normal_key(app, key) ==
    IF key.code = "Char" /\ key.ch = 101
    THEN [app EXCEPT !.input_mode = "Editing"]
    ELSE IF key.code = "Char" /\ key.ch = 113
    THEN [app EXCEPT !.exit = TRUE]
    ELSE app

\* the match of App::run on one key event: the App after the dispatch and
\* whether run returns Ok(()) or the dispatch panics
handle_key(inp, ci, mode, key) ==
    LET app == [input |-> inp, character_index |-> ci, input_mode |-> mode,
                exit |-> FALSE, panicked |-> FALSE]
    IN  CASE mode = "Normal" -> normal_key(app, key)
          [] mode = "Editing" /\ key.kind = "Press" -> editing_key(app, key)
          [] mode = "Editing" -> app
          [] OTHER -> app

\* a loop that polls the next key without looking at the mode
NextPcRead(mode) == "read"

\* the top of the loop of App::run: a Generating mode runs submit_message
\* before the next event::read()
NextPc(mode) == IF mode = "Generating" THEN "submit" ELSE "read"

\* App::new
Init ==
    /\ input = <<>>
    /\ character_index = 0
    /\ input_mode = "Editing"
    /\ messages = <<>>
    /\ context = <<Msg("system", SYSTEM_PROMPT)>>
    /\ context_len = StrLen(SYSTEM_PROMPT)
    /\ pc = NextPc("Editing")
    /\ status = "running"
    /\ text = <<>>
    /\ max_width = 0
    /\ lines = <<>>

\* event::read() returns a key event and App::run dispatches it
KeyEvent(key) ==
    /\ pc = "read"
    /\ (input_mode = "Editing" /\ key.kind = "Press" /\ key.code = "Char")
           => Len(input) < MaxInput
    /\ (input_mode = "Editing" /\ key.kind = "Press" /\ key.code = "Enter")
           => Turns < MaxTurns
    /\ LET r == handle_key(input, character_index, input_mode, key)
       IN  /\ input' = r.input
           /\ character_index' = r.character_index
           /\ input_mode' = r.input_mode
           /\ pc' = IF r.exit \/ r.panicked THEN "exited" ELSE NextPc(r.input_mode)
           /\ status' = IF r.panicked THEN "panicked"
                        ELSE IF r.exit THEN "success" ELSE status
    /\ UNCHANGED <<messages, context, context_len, text, max_width, lines>>

\* the Generating branch of App::run: submit_message, then Editing
Generate(o) ==
    /\ pc = "submit"
    /\ LET r == submit_message(input, character_index, messages, context,
                               context_len, o)
       IN  /\ input' = r.input
           /\ character_index' = r.character_index
           /\ messages' = r.messages
           /\ context' = r.context
           /\ context_len' = r.context_len
           /\ input_mode' = IF r.panicked THEN input_mode ELSE "Editing"
           /\ pc' = IF r.panicked THEN "exited" ELSE "read"
           /\ status' = IF r.panicked THEN "panicked" ELSE status
    /\ UNCHANGED <<text, max_width, lines>>

Next ==
    \/ \E key \in KeyEvents : KeyEvent(key)
    \/ \E o \in Outcomes : Generate(o)

Spec == Init /\ [][Next]_vars

\* the same controller under a keyboard with a multi-byte character and an
\* engine whose replies never overflow the budget
NextEditor ==
    \/ \E key \in EditorKeyEvents : KeyEvent(key)
    \/ \E o \in EditorOutcomes : Generate(o)

SpecEditor == Init /\ [][NextEditor]_vars

\* scalars of one, two and three bytes in UTF-8: e, e-acute, em dash
BufferChars == {101, 233, 8212}

\* the keys that edit the buffer or move the cursor
BufferKeyEvents ==
    {key \in KeyEventsOf(BufferChars) :
        key.code \in {"Char", "Backspace", "Left", "Right"}}

\* event::read() returns an editing key and App::run dispatches it, with
\* buffers of up to MaxBuf scalars
EditKey(key) ==
    /\ pc = "read"
    /\ (input_mode = "Editing" /\ key.kind = "Press" /\ key.code = "Char")
           => Len(input) < MaxBuf
    /\ LET r == handle_key(input, character_index, input_mode, key)
       IN  /\ input' = r.input
           /\ character_index' = r.character_index
           /\ input_mode' = r.input_mode
           /\ pc' = IF r.exit \/ r.panicked THEN "exited" ELSE NextPc(r.input_mode)
           /\ status' = IF r.panicked THEN "panicked"
                        ELSE IF r.exit THEN "success" ELSE status
    /\ UNCHANGED <<messages, context, context_len, text, max_width, lines>>

NextBuffer == \E key \in BufferKeyEvents : EditKey(key)

\* the line editor alone: typing, deleting and moving in the buffer
SpecBuffer == Init /\ [][NextBuffer]_vars

\* a space, a one-byte letter and a two-byte letter
WrapChars == {32, 97, 233}

\* a transcript text grows by one scalar and is wrapped again by draw
AppendText(c) ==
    /\ Len(text) < MaxText
    /\ text' = Append(text, c)
    /\ lines' = wrap_text(text', max_width)
    /\ UNCHANGED <<input, character_index, input_mode, messages, context,
                   context_len, pc, status, max_width>>

\* the frame takes another width and the text is wrapped again by draw
Resize(width) ==
    /\ width # max_width
    /\ max_width' = width
    /\ lines' = wrap_text(text, max_width')
    /\ UNCHANGED <<input, character_index, input_mode, messages, context,
                   context_len, pc, status, text>>

NextWrap ==
    \/ \E c \in WrapChars : AppendText(c)
    \/ \E width \in 0..MaxWidth : Resize(width)

\* the line wrapper alone, over every text and every frame width
SpecWrap == Init /\ [][NextWrap]_vars

TypeOK ==
    /\ input_mode \in {"Normal", "Editing", "Generating"}
    /\ pc \in {"read", "submit", "exited"}
    /\ status \in {"running", "success", "panicked"}
    /\ character_index \in 0..MaxInput
    /\ Len(input) <= MaxInput

(* ---- properties ---- *)

RECURSIVE ContextBytes(_)
\* the sum of the byte lengths of the contents of a context
ContextBytes(ctx) ==
    IF ctx = <<>> THEN 0 ELSE StrLen(Head(ctx).content) + ContextBytes(Tail(ctx))

RECURSIVE ContextChars(_)
\* the sum of the scalar counts of the contents of a context
ContextChars(ctx) ==
    IF ctx = <<>> THEN 0
    ELSE CharCount(Head(ctx).content) + ContextChars(Tail(ctx))

\* the indices of the assistant entries of a transcript and of a context
AssistantEntries(msgs) == {i \in 1..Len(msgs) : msgs[i].who = "Assistant"}

AssistantMessages(ctx) == {i \in 1..Len(ctx) : ctx[i].role = "assistant"}

\* C1: in every reachable state element 0 of the conversation is the system
\* message with content SYSTEM_PROMPT and no other element has role system;
\* pruning never removes or moves it.
C1_SystemFirst ==
    /\ Len(context) >= 1
    /\ context[1] = Msg("system", SYSTEM_PROMPT)
    /\ \A i \in 2..Len(context) : context[i].role # "system"

\* two turns were completed and pruning removed the older exchange
C1_Witness ==
    /\ pc = "read"
    /\ Len(messages) = 4
    /\ Len(context) = 3
    /\ context[1].role = "system"

\* C2: after every completed request cycle the running length is within the
\* budget, or the conversation holds the system message alone.
C2_BudgetAfterCycle ==
    pc = "read" => (context_len <= BUDGET \/ Len(context) = 1)

\* a single exchange overflowed the budget and the cycle completed
C2_Witness ==
    /\ pc = "read"
    /\ Len(messages) = 2
    /\ Len(context) = 1
    /\ context_len <= BUDGET

\* C3: whenever the controller waits for a key, the messages after the
\* system message are complete exchanges: user at positions 1, 3, 5, ..,
\* assistant at positions 2, 4, 6, .., and the message count is odd.
C3_CompleteExchanges ==
    pc = "read" =>
        /\ Len(context) % 2 = 1
        /\ \A i \in 2..Len(context) :
               context[i].role = IF i % 2 = 0 THEN "user" ELSE "assistant"

\* C4 as stated: the running length is the sum of the content lengths in
\* Unicode scalars.
C4_CharLength == context_len = ContextChars(context)

\* C4 amended: while the process has not panicked, the running length is the
\* sum of the content lengths in UTF-8 bytes.
C4_ByteLength ==
    status # "panicked" => context_len = ContextBytes(context)

\* pruning removed an exchange and a multi-byte reply is held
C4_Witness ==
    /\ pc = "read"
    /\ Len(messages) = 4
    /\ Len(context) = 3
    /\ context_len = ContextBytes(context)
    /\ ContextBytes(context) > ContextChars(context) + 2

\* C5: in every reachable state 0 <= cursor <= number of scalars of the
\* input buffer.
C5_CursorInRange ==
    /\ 0 <= character_index
    /\ character_index <= CharCount(input)

\* after a submission, a two-byte character was typed and the cursor is past it
C5_Witness ==
    /\ Len(messages) >= 2
    /\ input = <<233>>
    /\ character_index = 1

\* C6 as stated: the controller starts in Browsing: in the state after
\* construction no key event mutates the editor buffer or leads to a
\* request, and q exits with success.
C6_StartsBrowsing ==
    [][Init =>
         /\ input' = input
         /\ input_mode' # "Generating"
         /\ \A k \in KeyEvents :
                (k.code = "Char" /\ k.ch = 113 /\ KeyEvent(k))
                    => (pc' = "exited" /\ status' = "success")]_vars

\* a step taken while the controller waits for a key in Browsing mode
BrowsingStep ==
    (pc = "read" /\ input_mode = "Normal") =>
        /\ UNCHANGED <<input, character_index, messages, context, context_len>>
        /\ pc' # "submit"
        /\ input_mode' \in {"Normal", "Editing"}
        /\ input_mode' = "Editing" =>
               \E k \in KeyEvents : k.code = "Char" /\ k.ch = 101 /\ KeyEvent(k)
        /\ \A k \in KeyEvents :
               (k.code = "Char" /\ k.ch = 113 /\ KeyEvent(k))
                   => (pc' = "exited" /\ status' = "success")

\* C6 amended: the controller starts in Editing; in Browsing no key event
\* mutates the editor buffer or the conversation and none issues a request,
\* only e leads to Editing, and q exits with success.
C6_EditingFirst == input_mode = "Editing" /\ [][BrowsingStep]_vars

\* the controller left Editing with Esc and q ended the run
C6_Witness == status = "success" /\ input_mode = "Normal" /\ pc = "exited"

\* C7: a successful reply of a variant other than the completed chat result
\* is fatal to the request cycle.
C7_NonDoneFatal ==
    [][(\E o \in Outcomes : o.kind = "Other" /\ Generate(o))
           => (pc' = "exited" /\ status' = "panicked")]_vars

\* C8: a failed send, a closed reply channel, an engine error or a completed
\* result without content ends the cycle in a panic; no assistant entry is
\* appended to the transcript or the conversation and the mode does not
\* return to Editing.
C8_FailureFatal ==
    [][\A o \in Outcomes :
          ( /\ pc = "submit"
            /\ \/ o.kind \in {"SendError", "RecvClosed", "EngineError"}
               \/ (o.kind = "Done" /\ ~o.some)
            /\ Generate(o) )
          => /\ pc' = "exited"
             /\ status' = "panicked"
             /\ input_mode' # "Editing"
             /\ AssistantEntries(messages') = AssistantEntries(messages)
             /\ AssistantMessages(context') = AssistantMessages(context)
             /\ Len(messages') = Len(messages) + 1
             /\ Len(context') = Len(context) + 1]_vars

\* a request cycle panicked right after the user message was stored
C8_Witness ==
    /\ status = "panicked"
    /\ input_mode = "Generating"
    /\ messages[Len(messages)].who = "Me"
    /\ context[Len(context)].role = "user"

\* C9: a turn with buffer text T and a completed reply R that triggers no
\* pruning appends (Me, T) then (Assistant, R) to the transcript and a user
\* message T then an assistant message with the alphanumeric characters of R
\* to the conversation.
C9_SuccessfulTurn ==
    [][\A o \in Outcomes :
          ( /\ pc = "submit"
            /\ o.kind = "Done"
            /\ o.some
            /\ context_len + StrLen(input) + StrLen(Sanitize(o.content)) <= BUDGET
            /\ Generate(o) )
          => /\ messages' = messages \o <<Entry("Me", input),
                                          Entry("Assistant", o.content)>>
             /\ context' = context \o <<Msg("user", input),
                                        Msg("assistant", Sanitize(o.content))>>]_vars

\* the first turn completed with a reply that differs from its sanitized form
C9_Witness ==
    /\ pc = "read"
    /\ Len(messages) = 2
    /\ Len(context) = 3
    /\ messages[2].who = "Assistant"
    /\ context[3].role = "assistant"
    /\ context[3].content # messages[2].text
    /\ context[3].content = Sanitize(messages[2].text)

\* C10: the transcript never shrinks, every entry keeps its index and text,
\* and it holds two entries per completed turn.
C10_TranscriptTwoPerTurn ==
    [][/\ Len(messages') >= Len(messages)
       /\ SubSeq(messages', 1, Len(messages)) = messages
       /\ pc' = "read" => Len(messages') = 2 * TurnsOf(messages')]_vars

\* C11: no key event is read while the mode is Generating; an Enter in
\* Editing leaves the buffer as it is and is followed by exactly one request,
\* which carries that buffer and is answered before the next key is polled.
C11_OneRequestPerEnter ==
    [][/\ pc' = "read" => input_mode' # "Generating"
       /\ (pc = "read" /\ pc' = "submit") =>
              /\ input_mode = "Editing"
              /\ input_mode' = "Generating"
              /\ UNCHANGED <<input, messages, context, context_len>>
       /\ pc = "submit" =>
              /\ input_mode = "Generating"
              /\ pc' # "submit"
              /\ TurnsOf(messages') = TurnsOf(messages) + 1
              /\ messages'[Len(messages) + 1] = Entry("Me", input)]_vars

\* two requests were issued and answered, the first with a typed buffer
C11_Witness ==
    /\ pc = "read"
    /\ TurnsOf(messages) = 2
    /\ messages[1] = Entry("Me", <<101>>)

\* C12: when the engine replies with a completed result, the cycle completes:
\* the buffer is empty, the cursor is 0 and the mode is Editing when the next
\* key is polled.
C12_EditingAfterReply ==
    [][/\ (pc = "submit" /\ pc' = "read") =>
              (input_mode' = "Editing" /\ input' = <<>> /\ character_index' = 0)
       /\ \A o \in Outcomes :
              (pc = "submit" /\ o.kind = "Done" /\ o.some /\ Generate(o))
              => /\ pc' = "read"
                 /\ input_mode' = "Editing"
                 /\ input' = <<>>
                 /\ character_index' = 0]_vars

\* the conversation and the running length of submit_message when its
\* pruning loop starts, for an outcome o that does not panic before it
Appended(o) ==
    LET c1 == Append(context, Msg("user", input))
    IN  IF o.kind = "Done"
        THEN Append(c1, Msg("assistant", Sanitize(o.content)))
        ELSE c1

AppendedLen(o) ==
    context_len + StrLen(input)
        + (IF o.kind = "Done" THEN StrLen(Sanitize(o.content)) ELSE 0)

\* the exchange of the buffer and the reply of o alone, with the system
\* message, exceeds the budget
ExchangeAloneExceeds(o) ==
    StrLen(context[1].content) + StrLen(input) + StrLen(Sanitize(o.content))
        > BUDGET

\* the conversation ctx ends with the exchange of the buffer and the reply of o
HoldsExchange(ctx, o) ==
    /\ Len(ctx) >= 3
    /\ ctx[Len(ctx) - 1] = Msg("user", input)
    /\ ctx[Len(ctx)] = Msg("assistant", Sanitize(o.content))

\* a conversation of complete exchanges after its first message
PairedExchanges(ctx) ==
    /\ Len(ctx) % 2 = 1
    /\ \A i \in 2..Len(ctx) :
           ctx[i].role = IF i % 2 = 0 THEN "user" ELSE "assistant"

\* C14 as stated: when the most recent exchange alone exceeds the budget,
\* pruning leaves the budget exceeded and keeps that exchange.
C14_KeepsLastExchange ==
    [][\A o \in Outcomes :
          ( /\ pc = "submit"
            /\ o.kind = "Done"
            /\ o.some
            /\ ExchangeAloneExceeds(o)
            /\ Generate(o) )
          => /\ context_len' > BUDGET
             /\ HoldsExchange(context', o)]_vars

\* C14 amended: when the most recent exchange alone exceeds the budget, a
\* cycle that completes ends within the budget and without that exchange;
\* from a conversation of complete exchanges the cycle completes with the
\* system message alone.
C14_DropsLastExchange ==
    [][\A o \in Outcomes :
          ( /\ pc = "submit"
            /\ o.kind = "Done"
            /\ o.some
            /\ ExchangeAloneExceeds(o)
            /\ Generate(o) )
          => /\ pc' = "read" =>
                    (context_len' <= BUDGET /\ ~HoldsExchange(context', o))
             /\ PairedExchanges(context) =>
                    (pc' = "read" /\ context' = <<context[1]>>)]_vars

\* a first turn whose reply alone overflows the budget completed
C14_Witness ==
    /\ pc = "read"
    /\ Len(messages) = 2
    /\ messages[2].who = "Assistant"
    /\ StrLen(SYSTEM_PROMPT) + StrLen(Sanitize(messages[2].text)) > BUDGET
    /\ context = <<Msg("system", SYSTEM_PROMPT)>>

RECURSIVE ShortRemoval(_, _)
\* the pruning loop started on (ctx, clen) reaches an iteration with the
\* running length over the budget and fewer than three messages
ShortRemoval(ctx, clen) ==
    /\ clen > BUDGET
    /\ \/ Len(ctx) < 3
       \/ ShortRemoval(<<ctx[1]>> \o SubSeq(ctx, 4, Len(ctx)),
                       clen - (StrLen(ctx[2].content) + StrLen(ctx[3].content)))

\* C15: the pruning loop never attempts a removal with fewer than three
\* messages held, and it terminates with the cycle completed.
C15_PruneGuarded ==
    [][\A o \in Outcomes :
          ( /\ pc = "submit"
            /\ o.kind \in {"Done", "Other"}
            /\ o.kind = "Done" => o.some
            /\ Generate(o) )
          => /\ ~ShortRemoval(Appended(o), AppendedLen(o))
             /\ pc' = "read"]_vars

\* every user and assistant message ever appended, in order: the transcript
\* receives one entry with each of them and is never pruned
History ==
    [i \in 1..Len(messages) |->
        IF messages[i].who = "Me"
        THEN Msg("user", messages[i].text)
        ELSE Msg("assistant", Sanitize(messages[i].text))]

IsSuffix(a, b) ==
    /\ Len(a) <= Len(b)
    /\ a = SubSeq(b, Len(b) - Len(a) + 1, Len(b))

\* C16: the messages after the system message are, in order and unchanged,
\* a contiguous suffix of all the messages ever appended.
C16_OldestFirst == IsSuffix(Tail(context), History)

\* the older of two exchanges was pruned and the younger one is held
C16_Witness ==
    /\ pc = "read"
    /\ Len(messages) = 4
    /\ Len(context) = 3
    /\ context[2] = Msg("user", messages[3].text)
    /\ context[3] = Msg("assistant", Sanitize(messages[4].text))

\* C17: a character typed with the cursor at k ends up at scalar index k,
\* every other scalar keeps its value and its order, the cursor becomes
\* k + 1, and the insertion never lands inside a multi-byte scalar.
C17_InsertAtCursor ==
    [][\A key \in BufferKeyEvents :
          (key.code = "Char" /\ key.kind = "Press" /\ EditKey(key))
          => /\ status' = "running"
             /\ Len(input') = Len(input) + 1
             /\ input'[character_index + 1] = key.ch
             /\ \A i \in 1..Len(input) :
                    input'[IF i <= character_index THEN i ELSE i + 1] = input[i]
             /\ character_index' = character_index + 1]_vars

\* a one-byte scalar stands between a two-byte and a three-byte one
C17_Witness ==
    /\ status = "running"
    /\ input = <<233, 101, 8212>>
    /\ character_index = 2

\* enter_char(c) followed at once by delete_char, from the current buffer
\* and cursor
RoundTrip(c) ==
    LET r == enter_char(input, character_index, c)
    IN  /\ r.ok
        /\ delete_char(r.input, r.character_index)
               = [input |-> input, character_index |-> character_index]

\* C18: Backspace changes nothing at cursor 0; otherwise it removes exactly
\* the scalar before the cursor and moves the cursor back by one; typing a
\* character and deleting at once restores buffer and cursor.
C18_DeleteBeforeCursor ==
    [][/\ \A c \in BufferChars : RoundTrip(c)
       /\ \A key \in BufferKeyEvents :
              (key.code = "Backspace" /\ key.kind = "Press" /\ EditKey(key))
              => IF character_index = 0
                 THEN UNCHANGED <<input, character_index>>
                 ELSE /\ input' = SubSeq(input, 1, character_index - 1)
                                  \o SubSeq(input, character_index + 1, Len(input))
                      /\ character_index' = character_index - 1
                      /\ status' = "running"]_vars

\* a buffer of two multi-byte scalars with the cursor between them
C18_Witness ==
    /\ status = "running"
    /\ input = <<233, 8212>>
    /\ character_index = 1

\* C13 as stated: every returned line has length <= max_width minus the
\* margin of 12.
C13_LinesFit ==
    \A i \in 1..Len(lines) : StrLen(lines[i]) + Margin <= max_width

\* C13 amended: every returned line that holds more than one word has
\* length <= max_width minus the margin of 12; a line of one word may be
\* longer, since no word is ever broken.
C13_PackedLinesFit ==
    \A i \in 1..Len(lines) :
        \/ Len(SplitWhitespace(lines[i])) <= 1
        \/ StrLen(lines[i]) + Margin <= max_width

\* two words fill the first line to the last column, the third is wrapped
C13_Witness ==
    /\ max_width = 15
    /\ text = <<97, 32, 97, 32, 97, 97>>
    /\ lines = << <<97, 32, 97>>, <<97, 97>> >>

RECURSIVE ConcatWords(_)
\* the words of each line, in line order
ConcatWords(ls) ==
    IF ls = <<>> THEN <<>>
    ELSE SplitWhitespace(Head(ls)) \o ConcatWords(Tail(ls))

\* C19: the words of the returned lines, taken in line order, are exactly
\* the words of the text: none is lost, moved or broken.
C19_WordsPreserved == ConcatWords(lines) = SplitWhitespace(text)

\* two words between repeated spaces, wrapped into two lines
C19_Witness ==
    /\ text = <<32, 97, 32, 32, 233, 97>>
    /\ max_width = 14
    /\ lines = << <<97>>, <<233, 97>> >>

\* C20: no returned line is empty, and a text without words gives no line.
C20_NoEmptyLine ==
    /\ \A i \in 1..Len(lines) : SplitWhitespace(lines[i]) # <<>>
    /\ SplitWhitespace(text) = <<>> => lines = <<>>

====
